---- MODULE Spec2Model ----
(***************************************************************************)
(* Model of src/bot.py: an aiogram bot that shows the sections of a        *)
(* content catalog.  The state is the module-level content (SECTIONS,      *)
(* INTERFACE_MODE) and the event-handling tasks of the dispatcher; every   *)
(* transport call (answer, send_photo, send_message) is one step of a      *)
(* task and may succeed or raise.                                          *)
(*                                                                         *)
(* Strings that the code only compares for equality are TLA+ strings.      *)
(* Callback data, which the code tests with startswith and cuts with       *)
(* split, is a sequence of one-character strings.  The Russian literals    *)
(* of the source are transliterated to ASCII:                              *)
(*   "Vybrat razdel"        = "Выбрать раздел"      (choose section)       *)
(*   "Kupit planer"         = "Купить планер"       (buy)                  *)
(*   "Svyazatsya s avtorom" = "Связаться с автором" (contact)              *)
(*   "Pomoshch"             = "Помощь"              (help)                 *)
(*   "Nazad"                = "Назад"               (back)                 *)
(*   "Podrobnee"            = "Подробнее"           (more)                 *)
(***************************************************************************)
EXTENDS Naturals, Sequences, FiniteSets

VARIABLES SECTIONS, INTERFACE_MODE, tasks

vars == <<SECTIONS, INTERFACE_MODE, tasks>>

\* Longest catalog of the content sources the model loads.
MaxSections == 3

-----------------------------------------------------------------------------
(* Python values *)

\* A section id as json.load yields it: a str (field s) or an int (field n).
StrId(s) == [py |-> "str", s |-> s, n |-> 0]
IntId(n) == [py |-> "int", s |-> <<>>, n |-> n]

\* The id == sid comparisons of the callback handlers: sid is always a str, and
\* in Python a str never equals an int.
PyEqStr(id, sid) == id.py = "str" /\ id.s = sid

DigitChars == <<"0", "1", "2", "3", "4", "5", "6", "7", "8", "9">>

RECURSIVE FormatInt(_)
FormatInt(n) ==
    IF n < 10 THEN <<DigitChars[n + 1]>>
    ELSE FormatInt(n \div 10) \o <<DigitChars[(n % 10) + 1]>>

\* The {s['id']} of the f-strings.
FormatId(id) == IF id.py = "int" THEN FormatInt(id.n) ELSE id.s

\* str.startswith
StartsWith(s, p) == Len(s) >= Len(p) /\ SubSeq(s, 1, Len(p)) = p

\* The second element of s.split("|", 1), for s that holds a "|".
SplitRest(s) ==
    LET i == CHOOSE k \in 1..Len(s) : s[k] = "|" /\ \A j \in 1..(k - 1) : s[j] # "|"
    IN  SubSeq(s, i + 1, Len(s))

SectPrefix == <<"s", "e", "c", "t", "|">>
MorePrefix == <<"m", "o", "r", "e", "|">>
BackToMenu == <<"b", "a", "c", "k", "_", "t", "o", "_", "m", "e", "n", "u">>

-----------------------------------------------------------------------------
(* Content *)

\* A section of content.json.  An absent text, image or more_text is "": the
\* code reads them with section.get and tests only their truth, and None and
\* "" are both false.
Section(id, title, text, image, has_more, more_text) ==
    [id |-> id, title |-> title, text |-> text, image |-> image,
     has_more |-> has_more, more_text |-> more_text]

\* The sections a content source is made of.  The load validates nothing, so
\* the pool holds two sections with one id, two with one title, a title that
\* is a menu button's label and an id that is a JSON number.
SectionPool ==
    { Section(StrId(<<"a">>), "Wings", "Wing design", "", FALSE, ""),
      Section(StrId(<<"b">>), "Tail", "Tail design", "tail.png", TRUE, "Tail details"),
      Section(StrId(<<"a">>), "Rudder", "Rudder design", "rudder.png", TRUE, ""),
      Section(StrId(<<"c">>), "Wings", "Wing spar", "", FALSE, "Spar details"),
      Section(StrId(<<"d">>), "Nazad", "Back cover", "cover.png", FALSE, ""),
      Section(IntId(1), "Nose", "Nose design", "", TRUE, "Nose details") }

ContentSources == UNION { [1..n -> SectionPool] : n \in 0..MaxSections }

BUY_URL == "https://market.example/planner"
CONTACT_URL == "https://t.me/author"
WELCOME_TEXT == "Privet!"

\* The f-strings of buy_handler and contact_handler, with the URLs above.
BUY_TEXT == "Pereiti na marketpleis: https://market.example/planner"
CONTACT_TEXT == "Svyazatsya: https://t.me/author"

-----------------------------------------------------------------------------
(* Keyboards *)

KeyboardButton(text) == [text |-> text, callback_data |-> <<>>, url |-> ""]
InlineCallbackButton(text, data) == [text |-> text, callback_data |-> data, url |-> ""]
InlineUrlButton(text, url) == [text |-> text, callback_data |-> <<>>, url |-> url]

\* reply_markup=None
NoMarkup == [type |-> "none", rows |-> <<>>]

build_menu_keyboard ==
    [type |-> "reply",
     rows |-> << <<KeyboardButton("Vybrat razdel")>>,
                 <<KeyboardButton("Kupit planer")>>,
                 <<KeyboardButton("Svyazatsya s avtorom")>>,
                 <<KeyboardButton("Pomoshch")>> >>]

\* Mutant of ReplyRows: the row is put on the keyboard at odd i.
RECURSIVE ReplyRows_odd(_, _, _)
ReplyRows_odd(i, row, rows) ==
    IF i > Len(SECTIONS)
    THEN IF row # <<>> THEN Append(rows, row) ELSE rows
    ELSE LET r == Append(row, KeyboardButton(SECTIONS[i].title))
         IN  IF i % 2 = 1
             THEN ReplyRows_odd(i + 1, <<>>, Append(rows, r))
             ELSE ReplyRows_odd(i + 1, r, rows)

\* The loop of build_sections_reply_keyboard from section i on, with the row
\* being filled and the rows already put on the keyboard.
RECURSIVE ReplyRows(_, _, _)
ReplyRows(i, row, rows) ==
    IF i > Len(SECTIONS)
    THEN IF row # <<>> THEN Append(rows, row) ELSE rows
    ELSE LET r == Append(row, KeyboardButton(SECTIONS[i].title))
         IN  IF i % 2 = 0
             THEN ReplyRows(i + 1, <<>>, Append(rows, r))
             ELSE ReplyRows(i + 1, r, rows)

build_sections_reply_keyboard ==
    [type |-> "reply",
     rows |-> Append(ReplyRows(1, <<>>, <<>>), <<KeyboardButton("Nazad")>>)]

\* InlineKeyboardMarkup(row_width=2).insert: the button joins the last row
\* while that row has fewer than two buttons, and opens a new row otherwise.
InlineInsert(rows, button) ==
    IF rows # <<>> /\ Len(rows[Len(rows)]) < 2
    THEN [rows EXCEPT ![Len(rows)] = Append(@, button)]
    ELSE Append(rows, <<button>>)

RECURSIVE InlineSectionRows(_, _)
InlineSectionRows(i, rows) ==
    IF i > Len(SECTIONS) THEN rows
    ELSE InlineSectionRows(i + 1,
             InlineInsert(rows, InlineCallbackButton(SECTIONS[i].title,
                                    SectPrefix \o FormatId(SECTIONS[i].id))))

build_inline_sections_keyboard ==
    [type |-> "inline",
     rows |-> InlineSectionRows(1, <<>>)
                \o << <<InlineUrlButton("Kupit planer", BUY_URL)>>,
                      <<InlineUrlButton("Svyazatsya s avtorom", CONTACT_URL)>> >>]

\* The keyboard inline_section_callback builds for the section it found.
SectionDetailKeyboard(section) ==
    [type |-> "inline",
     rows |-> (IF section.has_more
               THEN << <<InlineCallbackButton("Podrobnee",
                             MorePrefix \o FormatId(section.id))>> >>
               ELSE <<>>)
              \o << <<InlineCallbackButton("Nazad", BackToMenu)>> >>]

-----------------------------------------------------------------------------
(* Transport calls *)

SendMessage(text, markup, ok) ==
    [op |-> "sendMessage", text |-> text, photo |-> "", reply_markup |-> markup,
     show_alert |-> FALSE, ok |-> ok]

SendPhoto(photo, caption, markup, ok) ==
    [op |-> "sendPhoto", text |-> caption, photo |-> photo, reply_markup |-> markup,
     show_alert |-> FALSE, ok |-> ok]

AnswerCallback(text, show_alert, ok) ==
    [op |-> "answerCallback", text |-> text, photo |-> "", reply_markup |-> NoMarkup,
     show_alert |-> show_alert, ok |-> ok]

-----------------------------------------------------------------------------
(* Events *)

Message(text) == [kind |-> "message", text |-> text, data |-> <<>>]
CallbackQuery(data) == [kind |-> "callback_query", text |-> "", data |-> data]
NoEvent == [kind |-> "none", text |-> "", data |-> <<>>]

ButtonLabels ==
    {"Vybrat razdel", "Kupit planer", "Svyazatsya s avtorom", "Pomoshch", "Nazad"}

MessageTexts ==
    {"/start", "/help", "xyz123"} \cup ButtonLabels
        \cup {s.title : s \in SectionPool}

\* Payloads of the buttons the bot makes, payloads with an id that may be in
\* no section, and payloads of no handler's form (the last one is empty).
CallbackData ==
    {SectPrefix \o FormatId(s.id) : s \in SectionPool}
        \cup {MorePrefix \o FormatId(s.id) : s \in SectionPool}
        \cup {SectPrefix \o <<"z">>, MorePrefix \o <<"z">>, SectPrefix, BackToMenu,
              <<"b", "a", "c", "k">>, <<>>}

Events == {Message(x) : x \in MessageTexts} \cup {CallbackQuery(d) : d \in CallbackData}

-----------------------------------------------------------------------------
(* Dispatcher *)

\* Mutant of MessageHandlers: section_selected registered before the handlers
\* of the menu buttons.
MessageHandlers_titles_first ==
    <<"cmd_start", "cmd_help", "section_selected", "show_sections_menu", "buy_handler",
      "contact_handler", "help_text", "back_handler", "echo">>

\* Handlers in the order the decorators register them.
MessageHandlers ==
    <<"cmd_start", "cmd_help", "show_sections_menu", "buy_handler", "contact_handler",
      "help_text", "back_handler", "section_selected", "echo">>

CallbackHandlers ==
    <<"inline_section_callback", "inline_more_callback", "back_callback">>

\* The filter each decorator gives its handler.
Filter(h, e) ==
    CASE h = "cmd_start"               -> e.text = "/start"
      [] h = "cmd_help"                -> e.text = "/help"
      [] h = "show_sections_menu"      -> e.text = "Vybrat razdel"
      [] h = "buy_handler"             -> e.text = "Kupit planer"
      [] h = "contact_handler"         -> e.text = "Svyazatsya s avtorom"
      [] h = "help_text"               -> e.text = "Pomoshch"
      [] h = "back_handler"            -> e.text = "Nazad"
      [] h = "section_selected"        ->
            \E i \in 1..Len(SECTIONS) : e.text = SECTIONS[i].title
      [] h = "echo"                    -> TRUE
      [] h = "inline_section_callback" -> e.data # <<>> /\ StartsWith(e.data, SectPrefix)
      [] h = "inline_more_callback"    -> e.data # <<>> /\ StartsWith(e.data, MorePrefix)
      [] h = "back_callback"           -> e.data = BackToMenu

\* Mutant of Dispatch: every handler whose filter passes is run.
Dispatch_all_passing(e) ==
    SelectSeq(IF e.kind = "message" THEN MessageHandlers ELSE CallbackHandlers,
              LAMBDA h : Filter(h, e))

\* The handlers the dispatcher runs for an event: the first registered handler
\* of the event's kind whose filter passes, and no other.
Dispatch(e) ==
    LET registered == IF e.kind = "message" THEN MessageHandlers ELSE CallbackHandlers
        passing == SelectSeq(registered, LAMBDA h : Filter(h, e))
    IN  IF passing = <<>> THEN <<>> ELSE <<Head(passing)>>

-----------------------------------------------------------------------------
(* Section lookups *)

NoSection == Section(StrId(<<>>), "", "", "", FALSE, "")

\* next(s for s in SECTIONS if s["title"] == title), where the filter of
\* section_selected has found such a section.
SectionByTitle(title) ==
    LET i == CHOOSE k \in 1..Len(SECTIONS) :
                 /\ SECTIONS[k].title = title
                 /\ \A j \in 1..(k - 1) : SECTIONS[j].title # title
    IN  SECTIONS[i]

\* Whether next((s for s in SECTIONS if s["id"] == sid), None) is a section.
HasSectionId(sid) == \E k \in 1..Len(SECTIONS) : PyEqStr(SECTIONS[k].id, sid)

SectionById(sid) ==
    LET i == CHOOSE k \in 1..Len(SECTIONS) :
                 /\ PyEqStr(SECTIONS[k].id, sid)
                 /\ \A j \in 1..(k - 1) : ~PyEqStr(SECTIONS[j].id, sid)
    IN  SECTIONS[i]

-----------------------------------------------------------------------------
(* Tasks *)

IdleTask ==
    [pc |-> "idle", event |-> NoEvent, handlers |-> <<>>, out |-> <<>>,
     section |-> NoSection, reply_markup |-> NoMarkup]

\* Task t is at pc in handler h.
At(t, h, pc) ==
    /\ tasks[t].pc = pc
    /\ tasks[t].handlers # <<>>
    /\ Head(tasks[t].handlers) = h

\* An awaited transport call outside any try: the task goes on to next when
\* the call returns and ends when it raises.
Await(task, call, next) ==
    [task EXCEPT !.out = Append(@, call),
                 !.pc = IF call.ok THEN next ELSE "raised"]

\* Mutant of send_section: the return after send_photo is missing, so the text
\* message follows the photo.
send_section_no_return(task, section, reply_markup, ok) ==
    IF section.image # ""
    THEN [task EXCEPT !.out = Append(@, SendPhoto(section.image, section.text,
                                                  reply_markup, ok)),
                      !.pc = "photo_failed",
                      !.section = section,
                      !.reply_markup = reply_markup]
    ELSE [Await(task, SendMessage(section.text, reply_markup, ok), "done")
              EXCEPT !.section = section, !.reply_markup = reply_markup]

\* send_section up to the return of its first transport call.
send_section(task, section, reply_markup, ok) ==
    IF section.image # ""
    THEN [task EXCEPT !.out = Append(@, SendPhoto(section.image, section.text,
                                                  reply_markup, ok)),
                      !.pc = IF ok THEN "done" ELSE "photo_failed",
                      !.section = section,
                      !.reply_markup = reply_markup]
    ELSE [Await(task, SendMessage(section.text, reply_markup, ok), "done")
              EXCEPT !.section = section, !.reply_markup = reply_markup]

\* Mutant of send_section_text: the section and the keyboard are kept in
\* module-level variables that another task's send_section overwrites.
send_section_text_shared(task, ok) ==
    LET others == {u \in DOMAIN tasks : tasks[u] # task /\ tasks[u].section # NoSection}
        last == IF others = {} THEN task ELSE tasks[CHOOSE u \in others : TRUE]
    IN  Await(task, SendMessage(last.section.text, last.reply_markup, ok), "done")

\* send_section after send_photo raised: the text-only message.
send_section_text(task, ok) ==
    Await(task, SendMessage(task.section.text, task.reply_markup, ok), "done")

Init ==
    /\ SECTIONS \in ContentSources
    /\ INTERFACE_MODE \in {"menu", "inline"}
    /\ tasks = [t \in {1} |-> IdleTask]

\* The dispatcher takes an update and starts the handler it selects.
process_update(t) ==
    /\ tasks[t].pc = "idle"
    /\ \E e \in Events :
          tasks' = [tasks EXCEPT ![t] =
                       [@ EXCEPT !.pc = IF Dispatch(e) = <<>> THEN "done" ELSE "start",
                                 !.event = e,
                                 !.handlers = Dispatch(e)]]
    /\ UNCHANGED <<SECTIONS, INTERFACE_MODE>>

\* Mutant of update_processed: what the handler sent outlives its call, as in a
\* module-level list.
update_processed_keeps_out(t) ==
    /\ tasks[t].pc \in {"done", "raised"}
    /\ tasks' = [tasks EXCEPT ![t] = [IdleTask EXCEPT !.out = tasks[t].out]]
    /\ UNCHANGED <<SECTIONS, INTERFACE_MODE>>

\* The handling of an update is over, by return or by exception: the locals of
\* the handler are gone.
update_processed(t) ==
    /\ tasks[t].pc \in {"done", "raised"}
    /\ tasks' = [tasks EXCEPT ![t] = IdleTask]
    /\ UNCHANGED <<SECTIONS, INTERFACE_MODE>>

-----------------------------------------------------------------------------
(* Message handlers *)

HELP_TEXT == "Etot bot pokazyvaet primery zapolneniya razdelov planera."

cmd_start(t) ==
    /\ At(t, "cmd_start", "start")
    /\ \E ok \in BOOLEAN :
          tasks' = [tasks EXCEPT ![t] =
                       Await(@, SendMessage(WELCOME_TEXT, build_menu_keyboard, ok), "done")]
    /\ UNCHANGED <<SECTIONS, INTERFACE_MODE>>

cmd_help(t) ==
    /\ At(t, "cmd_help", "start")
    /\ \E ok \in BOOLEAN :
          tasks' = [tasks EXCEPT ![t] = Await(@, SendMessage(HELP_TEXT, NoMarkup, ok), "done")]
    /\ UNCHANGED <<SECTIONS, INTERFACE_MODE>>

\* Mutant of sections_menu_message: the reply keyboard in both modes.
sections_menu_message_reply_only(mode, ok) ==
    SendMessage("Vyberite razdel:", build_sections_reply_keyboard, ok)

\* The message of show_sections_menu under a mode.
sections_menu_message(mode, ok) ==
    IF mode = "menu"
    THEN SendMessage("Vyberite razdel:", build_sections_reply_keyboard, ok)
    ELSE SendMessage("Vyberite razdel:", build_inline_sections_keyboard, ok)

show_sections_menu(t) ==
    /\ At(t, "show_sections_menu", "start")
    /\ \E ok \in BOOLEAN :
          tasks' = [tasks EXCEPT ![t] =
                       Await(@, sections_menu_message(INTERFACE_MODE, ok), "done")]
    /\ UNCHANGED <<SECTIONS, INTERFACE_MODE>>

buy_handler(t) ==
    /\ At(t, "buy_handler", "start")
    /\ \E ok \in BOOLEAN :
          tasks' = [tasks EXCEPT ![t] = Await(@, SendMessage(BUY_TEXT, NoMarkup, ok), "done")]
    /\ UNCHANGED <<SECTIONS, INTERFACE_MODE>>

contact_handler(t) ==
    /\ At(t, "contact_handler", "start")
    /\ \E ok \in BOOLEAN :
          tasks' = [tasks EXCEPT ![t] =
                       Await(@, SendMessage(CONTACT_TEXT, NoMarkup, ok), "done")]
    /\ UNCHANGED <<SECTIONS, INTERFACE_MODE>>

\* help_text awaits cmd_help(message).
help_text(t) ==
    /\ At(t, "help_text", "start")
    /\ \E ok \in BOOLEAN :
          tasks' = [tasks EXCEPT ![t] = Await(@, SendMessage(HELP_TEXT, NoMarkup, ok), "done")]
    /\ UNCHANGED <<SECTIONS, INTERFACE_MODE>>

\* Mutant of back_handler_message: back_handler reads the mode as back_callback
\* does.
back_handler_message_by_mode(mode, ok) ==
    IF mode = "menu"
    THEN SendMessage("Glavnoe menyu:", build_menu_keyboard, ok)
    ELSE SendMessage("Vyberite razdel:", build_inline_sections_keyboard, ok)

\* The message of back_handler under a mode: the handler does not read the mode.
back_handler_message(mode, ok) ==
    SendMessage("Glavnoe menyu:", build_menu_keyboard, ok)

back_handler(t) ==
    /\ At(t, "back_handler", "start")
    /\ \E ok \in BOOLEAN :
          tasks' = [tasks EXCEPT ![t] =
                       Await(@, back_handler_message(INTERFACE_MODE, ok), "done")]
    /\ UNCHANGED <<SECTIONS, INTERFACE_MODE>>

section_selected(t) ==
    /\ At(t, "section_selected", "start")
    /\ \E ok \in BOOLEAN :
          tasks' = [tasks EXCEPT ![t] =
                       send_section(@, SectionByTitle(tasks[t].event.text), NoMarkup, ok)]
    /\ UNCHANGED <<SECTIONS, INTERFACE_MODE>>

\* The except branch of send_section, in whichever handler called it.
send_section_fallback(t) ==
    /\ tasks[t].pc = "photo_failed"
    /\ \E ok \in BOOLEAN :
          tasks' = [tasks EXCEPT ![t] = send_section_text(@, ok)]
    /\ UNCHANGED <<SECTIONS, INTERFACE_MODE>>

\* Mutant of echo: in inline mode the fallback carries the sections keyboard.
echo_by_mode(t) ==
    /\ At(t, "echo", "start")
    /\ \E ok \in BOOLEAN :
          tasks' = [tasks EXCEPT ![t] =
                       Await(@, SendMessage("Ne ponimayu.",
                                            IF INTERFACE_MODE = "menu" THEN NoMarkup
                                            ELSE build_inline_sections_keyboard, ok),
                             "done")]
    /\ UNCHANGED <<SECTIONS, INTERFACE_MODE>>

echo(t) ==
    /\ At(t, "echo", "start")
    /\ \E ok \in BOOLEAN :
          tasks' = [tasks EXCEPT ![t] =
                       Await(@, SendMessage("Ne ponimayu.", NoMarkup, ok), "done")]
    /\ UNCHANGED <<SECTIONS, INTERFACE_MODE>>

-----------------------------------------------------------------------------
(* Callback handlers *)

\* Mutant of answer_section_callback: the return after the alert is missing.
answer_section_callback_no_return(task, ok) ==
    LET sid == SplitRest(task.event.data)
    IN  IF ~HasSectionId(sid)
        THEN Await(task, AnswerCallback("Razdel ne naiden", TRUE, ok), "answered")
        ELSE [Await(task, AnswerCallback("", FALSE, ok), "answered")
                  EXCEPT !.section = SectionById(sid)]

\* Mutant of answer_section_callback: a found section is sent without the
\* acknowledgement.
answer_section_callback_unanswered(task, ok) ==
    LET sid == SplitRest(task.event.data)
    IN  IF ~HasSectionId(sid)
        THEN Await(task, AnswerCallback("Razdel ne naiden", TRUE, ok), "done")
        ELSE [task EXCEPT !.pc = "answered", !.section = SectionById(sid)]

\* The lookup of the two section callbacks, up to the return of call.answer:
\* an alert and the end when no section has the id, a plain acknowledgement
\* and the section kept otherwise.
answer_section_callback(task, ok) ==
    LET sid == SplitRest(task.event.data)
    IN  IF ~HasSectionId(sid)
        THEN Await(task, AnswerCallback("Razdel ne naiden", TRUE, ok), "done")
        ELSE [Await(task, AnswerCallback("", FALSE, ok), "answered")
                  EXCEPT !.section = SectionById(sid)]

inline_section_callback(t) ==
    /\ At(t, "inline_section_callback", "start")
    /\ \E ok \in BOOLEAN :
          tasks' = [tasks EXCEPT ![t] = answer_section_callback(@, ok)]
    /\ UNCHANGED <<SECTIONS, INTERFACE_MODE>>

inline_section_callback_send(t) ==
    /\ At(t, "inline_section_callback", "answered")
    /\ \E ok \in BOOLEAN :
          tasks' = [tasks EXCEPT ![t] =
                       send_section(@, tasks[t].section,
                                    SectionDetailKeyboard(tasks[t].section), ok)]
    /\ UNCHANGED <<SECTIONS, INTERFACE_MODE>>

inline_more_callback(t) ==
    /\ At(t, "inline_more_callback", "start")
    /\ \E ok \in BOOLEAN :
          tasks' = [tasks EXCEPT ![t] = answer_section_callback(@, ok)]
    /\ UNCHANGED <<SECTIONS, INTERFACE_MODE>>

\* section.get("more_text") or the static text
more_text(section) ==
    IF section.more_text # "" THEN section.more_text
    ELSE "Dopolnitelnaya informatsiya otsutstvuet."

inline_more_callback_send(t) ==
    /\ At(t, "inline_more_callback", "answered")
    /\ \E ok \in BOOLEAN :
          tasks' = [tasks EXCEPT ![t] =
                       Await(@, SendMessage(more_text(tasks[t].section), NoMarkup, ok),
                             "done")]
    /\ UNCHANGED <<SECTIONS, INTERFACE_MODE>>

back_callback(t) ==
    /\ At(t, "back_callback", "start")
    /\ \E ok \in BOOLEAN :
          tasks' = [tasks EXCEPT ![t] = Await(@, AnswerCallback("", FALSE, ok), "answered")]
    /\ UNCHANGED <<SECTIONS, INTERFACE_MODE>>

\* The message of back_callback under a mode.
back_callback_message(mode, ok) ==
    IF mode = "menu"
    THEN SendMessage("Glavnoe menyu:", build_menu_keyboard, ok)
    ELSE SendMessage("Vyberite razdel:", build_inline_sections_keyboard, ok)

back_callback_send(t) ==
    /\ At(t, "back_callback", "answered")
    /\ \E ok \in BOOLEAN :
          tasks' = [tasks EXCEPT ![t] =
                       Await(@, back_callback_message(INTERFACE_MODE, ok), "done")]
    /\ UNCHANGED <<SECTIONS, INTERFACE_MODE>>

-----------------------------------------------------------------------------
(* Specification *)

Next ==
    \/ \E t \in DOMAIN tasks : process_update(t)
    \/ \E t \in DOMAIN tasks : update_processed(t)
    \/ \E t \in DOMAIN tasks : cmd_start(t)
    \/ \E t \in DOMAIN tasks : cmd_help(t)
    \/ \E t \in DOMAIN tasks : show_sections_menu(t)
    \/ \E t \in DOMAIN tasks : buy_handler(t)
    \/ \E t \in DOMAIN tasks : contact_handler(t)
    \/ \E t \in DOMAIN tasks : help_text(t)
    \/ \E t \in DOMAIN tasks : back_handler(t)
    \/ \E t \in DOMAIN tasks : section_selected(t)
    \/ \E t \in DOMAIN tasks : send_section_fallback(t)
    \/ \E t \in DOMAIN tasks : echo(t)
    \/ \E t \in DOMAIN tasks : inline_section_callback(t)
    \/ \E t \in DOMAIN tasks : inline_section_callback_send(t)
    \/ \E t \in DOMAIN tasks : inline_more_callback(t)
    \/ \E t \in DOMAIN tasks : inline_more_callback_send(t)
    \/ \E t \in DOMAIN tasks : back_callback(t)
    \/ \E t \in DOMAIN tasks : back_callback_send(t)

Spec == Init /\ [][Next]_vars

\* Two updates in hand at once, as the dispatcher starts a task per update of
\* a batch; the tasks interleave at every transport call.  The catalogs are
\* made of two sections, one with an image and more_text and one without.
ConcurrentPool ==
    { Section(StrId(<<"a">>), "Wings", "Wing design", "", FALSE, ""),
      Section(StrId(<<"b">>), "Tail", "Tail design", "tail.png", TRUE, "Tail details") }

ConcurrentSources == UNION { [1..n -> ConcurrentPool] : n \in 0..MaxSections }

InitConcurrent ==
    /\ SECTIONS \in ConcurrentSources
    /\ INTERFACE_MODE \in {"menu", "inline"}
    /\ tasks = [t \in {1, 2} |-> IdleTask]

SpecConcurrent == InitConcurrent /\ [][Next]_vars

\* Two instances of the program over one content file, which differ in the
\* INTERFACE_MODE of their environment only.  The first runs in menu mode and
\* handles its updates in task 1; then the second is started in inline mode and
\* handles its updates in task 2, while task 1 keeps what the first instance did
\* for its last update.
Running == IF INTERFACE_MODE = "menu" THEN {1} ELSE {2}

InitModes ==
    /\ SECTIONS \in ConcurrentSources
    /\ INTERFACE_MODE = "menu"
    /\ tasks = [t \in {1, 2} |-> IdleTask]

\* The start of the second instance, with INTERFACE_MODE=inline in its
\* environment: the same SECTIONS are loaded, and no handler of the first
\* instance is under way.
start_inline_instance ==
    /\ INTERFACE_MODE = "menu"
    /\ tasks[1].pc \in {"done", "raised"}
    /\ tasks[2] = IdleTask
    /\ INTERFACE_MODE' = "inline"
    /\ UNCHANGED <<SECTIONS, tasks>>

NextModes ==
    \/ start_inline_instance
    \/ \E t \in Running : process_update(t)
    \/ \E t \in Running : update_processed(t)
    \/ \E t \in Running : cmd_start(t)
    \/ \E t \in Running : cmd_help(t)
    \/ \E t \in Running : show_sections_menu(t)
    \/ \E t \in Running : buy_handler(t)
    \/ \E t \in Running : contact_handler(t)
    \/ \E t \in Running : help_text(t)
    \/ \E t \in Running : back_handler(t)
    \/ \E t \in Running : section_selected(t)
    \/ \E t \in Running : send_section_fallback(t)
    \/ \E t \in Running : echo(t)
    \/ \E t \in Running : inline_section_callback(t)
    \/ \E t \in Running : inline_section_callback_send(t)
    \/ \E t \in Running : inline_more_callback(t)
    \/ \E t \in Running : inline_more_callback_send(t)
    \/ \E t \in Running : back_callback(t)
    \/ \E t \in Running : back_callback_send(t)

SpecModes == InitModes /\ [][NextModes]_vars

TypeOK ==
    /\ SECTIONS \in ContentSources
    /\ INTERFACE_MODE \in {"menu", "inline"}
    /\ \A t \in DOMAIN tasks :
          /\ tasks[t].pc \in {"idle", "start", "answered", "photo_failed", "done", "raised"}
          /\ tasks[t].event \in Events \cup {NoEvent}
          /\ Len(tasks[t].out) <= 3

-----------------------------------------------------------------------------
(* What the claims speak of *)

\* The handling of task t's update is over.
Ended(t) == tasks[t].pc \in {"done", "raised"}

IsContent(c) == c.op \in {"sendMessage", "sendPhoto"}

\* The content messages a task has sent, and those the transport delivered.
Content(out) == SelectSeq(out, IsContent)
Delivered(out) == SelectSeq(out, LAMBDA c : IsContent(c) /\ c.ok)

\* All buttons of a keyboard, row after row.
RECURSIVE Buttons(_)
Buttons(rows) == IF rows = <<>> THEN <<>> ELSE Head(rows) \o Buttons(Tail(rows))

\* The id a sect| or more| payload carries: what follows its five-character verb.
PayloadId(data) == SubSeq(data, 6, Len(data))

IsSectionPayload(data) == StartsWith(data, SectPrefix) \/ StartsWith(data, MorePrefix)

\* send_section has been called in the task: by section_selected at once, by
\* inline_section_callback after its acknowledgement returned.
SendSectionCalled(task) ==
    /\ task.handlers # <<>>
    /\ \/ Head(task.handlers) = "section_selected" /\ task.pc \notin {"idle", "start"}
       \/ /\ Head(task.handlers) = "inline_section_callback"
          /\ task.pc \in {"photo_failed", "done", "raised"}
          /\ Len(task.out) >= 2

\* The keyboard the caller of send_section passes.
PassedMarkup(task) ==
    IF Head(task.handlers) = "section_selected" THEN NoMarkup
    ELSE SectionDetailKeyboard(task.section)

-----------------------------------------------------------------------------
(* C1 *)

\* C1, as claimed: in menu mode a text equal to the title of a section s of the
\* catalog (a title that is no menu button's label) is answered with content
\* messages that all carry s.text, one of them a photo of s.image when s has
\* an image.  The load accepts two sections with one title, and the second is
\* answered with the first one's content.
C1_TitleRendersItsSection ==
    \A t \in DOMAIN tasks : \A i \in 1..Len(SECTIONS) :
        ( /\ Ended(t)
          /\ INTERFACE_MODE = "menu"
          /\ tasks[t].event = Message(SECTIONS[i].title)
          /\ SECTIONS[i].title \notin ButtonLabels )
        => LET c == Content(tasks[t].out)
               s == SECTIONS[i]
           IN  /\ c # <<>>
               /\ \A k \in 1..Len(c) : c[k].text = s.text
               /\ s.image # "" =>
                     \E k \in 1..Len(c) : c[k].op = "sendPhoto" /\ c[k].photo = s.image

-----------------------------------------------------------------------------
(* C2 *)

\* C2, as claimed: once send_section has run for a section with an image,
\* exactly one content message has been delivered: the photo when send_photo
\* succeeded, a text message with the same caption and keyboard otherwise.
\* It fails when the text send raises too: nothing is delivered.
C2_ExactlyOneDelivered ==
    \A t \in DOMAIN tasks :
        ( /\ Ended(t)
          /\ SendSectionCalled(tasks[t])
          /\ tasks[t].section.image # "" )
        => LET d == Delivered(tasks[t].out)
               c == Content(tasks[t].out)
           IN  /\ Len(d) = 1
               /\ IF c[1].ok THEN d[1].op = "sendPhoto"
                  ELSE /\ d[1].op = "sendMessage"
                       /\ d[1].text = tasks[t].section.text
                       /\ d[1].reply_markup = PassedMarkup(tasks[t])

\* C2, amended: send_section for a section with an image first sends the photo
\* with the caption and the keyboard; when that succeeds it sends nothing
\* more; when it raises it sends exactly one text message with the same
\* caption and keyboard, delivered unless that send raises too.  At most one
\* message is delivered, never two.
C2_PhotoElseOneText ==
    \A t \in DOMAIN tasks :
        ( /\ SendSectionCalled(tasks[t])
          /\ tasks[t].section.image # "" )
        => LET c == Content(tasks[t].out)
               s == tasks[t].section
               kb == PassedMarkup(tasks[t])
           IN  /\ c # <<>>
               /\ c[1] = SendPhoto(s.image, s.text, kb, c[1].ok)
               /\ Len(Delivered(tasks[t].out)) <= 1
               /\ IF c[1].ok
                  THEN c = <<c[1]>> /\ tasks[t].pc = "done"
                  ELSE IF tasks[t].pc = "photo_failed"
                       THEN Len(c) = 1
                       ELSE /\ Len(c) = 2
                            /\ c[2] = SendMessage(s.text, kb, c[2].ok)
                            /\ tasks[t].pc = (IF c[2].ok THEN "done" ELSE "raised")
                            /\ Len(Delivered(tasks[t].out)) = (IF c[2].ok THEN 1 ELSE 0)

\* send_photo raised for a section with an image and a keyboard, and the text
\* message went out in its place.
C2_Witness ==
    \E t \in DOMAIN tasks :
        /\ tasks[t].pc = "done"
        /\ tasks[t].handlers = <<"inline_section_callback">>
        /\ tasks[t].section.image # ""
        /\ Len(tasks[t].out) = 3
        /\ tasks[t].out[2].op = "sendPhoto" /\ ~tasks[t].out[2].ok
        /\ tasks[t].out[3].op = "sendMessage" /\ tasks[t].out[3].ok
        /\ tasks[t].out[3].text = tasks[t].section.text

-----------------------------------------------------------------------------
(* C3 *)

\* C3, as claimed: the text "Nazad" is answered with one message, whose
\* keyboard is the main menu in menu mode and the sections inline keyboard in
\* inline mode.  back_handler sends the main menu in both modes.
C3_BackTextFollowsMode ==
    \A t \in DOMAIN tasks :
        (Ended(t) /\ tasks[t].event = Message("Nazad"))
        => /\ Len(tasks[t].out) = 1
           /\ tasks[t].out[1].op = "sendMessage"
           /\ tasks[t].out[1].reply_markup =
                 (IF INTERFACE_MODE = "menu" THEN build_menu_keyboard
                  ELSE build_inline_sections_keyboard)

-----------------------------------------------------------------------------
(* C4 *)

\* C4, as claimed: once the callback back_to_menu is acknowledged, its content
\* message has the text and the keyboard of the message the text "Nazad" gets
\* in the same mode, and in inline mode the keyboard is the sections inline
\* keyboard.  In inline mode the two handlers differ.
C4_BackCallbackLikeBackText ==
    \A t \in DOMAIN tasks :
        ( /\ Ended(t)
          /\ tasks[t].event = CallbackQuery(BackToMenu)
          /\ tasks[t].out[1].ok )
        => /\ Len(tasks[t].out) = 2
           /\ tasks[t].out[1].op = "answerCallback"
           /\ tasks[t].out[2].op = "sendMessage"
           /\ tasks[t].out[2].text = back_handler_message(INTERFACE_MODE, TRUE).text
           /\ tasks[t].out[2].reply_markup =
                 back_handler_message(INTERFACE_MODE, TRUE).reply_markup
           /\ INTERFACE_MODE = "inline" =>
                 tasks[t].out[2].reply_markup = build_inline_sections_keyboard

-----------------------------------------------------------------------------
(* C5 *)

\* C5: for a callback sect|X or more|X where no section has the id X, the
\* handler sends no content message at any point, and when it is over its
\* whole output is one callback answer, the alert "Razdel ne naiden" with
\* show_alert set.
C5_UnknownIdOnlyAlert ==
    \A t \in DOMAIN tasks :
        LET d == tasks[t].event.data
        IN  ( /\ tasks[t].event.kind = "callback_query"
              /\ IsSectionPayload(d)
              /\ \A i \in 1..Len(SECTIONS) : SECTIONS[i].id # StrId(PayloadId(d)) )
            => /\ Content(tasks[t].out) = <<>>
               /\ Ended(t) =>
                     /\ Len(tasks[t].out) = 1
                     /\ tasks[t].out[1].op = "answerCallback"
                     /\ tasks[t].out[1].text = "Razdel ne naiden"
                     /\ tasks[t].out[1].show_alert

\* A more| callback with an id of no section of a catalog that has sections
\* was answered with the alert.
C5_Witness ==
    \E t \in DOMAIN tasks :
        /\ tasks[t].pc = "done"
        /\ tasks[t].event = CallbackQuery(MorePrefix \o <<"z">>)
        /\ Len(SECTIONS) > 0
        /\ tasks[t].out = <<AnswerCallback("Razdel ne naiden", TRUE, TRUE)>>

-----------------------------------------------------------------------------
(* C6 *)

\* C6, as claimed: for every section s of the catalog, each message sent for
\* the callback sect|s.id has a keyboard that holds a more|s.id button exactly
\* when s.has_more, and whose last button is back_to_menu.  The load accepts
\* two sections with one id (C7), and the keyboard is then the first one's.
C6_MoreButtonIffHasMore ==
    \A t \in DOMAIN tasks : \A i \in 1..Len(SECTIONS) :
        tasks[t].event = CallbackQuery(SectPrefix \o FormatId(SECTIONS[i].id))
        => LET c == Content(tasks[t].out)
               more == MorePrefix \o FormatId(SECTIONS[i].id)
           IN  \A k \in 1..Len(c) :
                  LET b == Buttons(c[k].reply_markup.rows)
                  IN  /\ (\E j \in 1..Len(b) : b[j].callback_data = more)
                         <=> SECTIONS[i].has_more
                      /\ b # <<>>
                      /\ b[Len(b)].callback_data = BackToMenu

-----------------------------------------------------------------------------
(* C7 *)

\* C7, as claimed: no update is handled against a catalog in which two
\* sections have the same id, as the load has failed for such a source.  The
\* load checks nothing.
C7_NoDuplicateIdsLoaded ==
    (\E t \in DOMAIN tasks : tasks[t].pc # "idle")
    => \A i, j \in 1..Len(SECTIONS) : i # j => SECTIONS[i].id # SECTIONS[j].id

-----------------------------------------------------------------------------
(* C8 *)

\* The handler registered for the text of a menu button.
ButtonHandler(label) ==
    CASE label = "Vybrat razdel"        -> "show_sections_menu"
      [] label = "Kupit planer"         -> "buy_handler"
      [] label = "Svyazatsya s avtorom" -> "contact_handler"
      [] label = "Pomoshch"             -> "help_text"
      [] label = "Nazad"                -> "back_handler"

\* C8: a text that is both a menu button's label and the title of a section of
\* the catalog is handled by the button's handler alone; the section is not
\* rendered: what is sent is one text message, not the section's text and no
\* photo, and for "Nazad" it is the message of back_handler.
C8_ButtonLabelBeatsTitle ==
    \A t \in DOMAIN tasks : \A i \in 1..Len(SECTIONS) :
        ( /\ tasks[t].event.kind = "message"
          /\ tasks[t].event.text = SECTIONS[i].title
          /\ tasks[t].event.text \in ButtonLabels )
        => /\ tasks[t].handlers = <<ButtonHandler(tasks[t].event.text)>>
           /\ \A k \in 1..Len(tasks[t].out) :
                 /\ tasks[t].out[k].op = "sendMessage"
                 /\ tasks[t].out[k].text # SECTIONS[i].text
           /\ Ended(t) =>
                 /\ Len(tasks[t].out) = 1
                 /\ tasks[t].event.text = "Nazad" =>
                       tasks[t].out[1] =
                           back_handler_message(INTERFACE_MODE, tasks[t].out[1].ok)

\* The text "Nazad" came while a section is titled "Nazad", and the main menu
\* was sent.
C8_Witness ==
    \E t \in DOMAIN tasks : \E i \in 1..Len(SECTIONS) :
        /\ tasks[t].pc = "done"
        /\ tasks[t].event = Message("Nazad")
        /\ SECTIONS[i].title = "Nazad"
        /\ tasks[t].out = <<SendMessage("Glavnoe menyu:", build_menu_keyboard, TRUE)>>

-----------------------------------------------------------------------------
(* C9 *)

\* The payloads the callback handlers are registered for.
IsHandledPayload(data) == IsSectionPayload(data) \/ data = BackToMenu

\* C9, as claimed: every update is handled by exactly one handler, which makes
\* at least one transport call.  A callback whose payload is of no handler's
\* form is handled by none.
C9_ExactlyOneHandler ==
    \A t \in DOMAIN tasks :
        tasks[t].pc # "idle"
        => /\ Len(tasks[t].handlers) = 1
           /\ Ended(t) => tasks[t].out # <<>>

\* C9, amended: every text update (commands among them) and every callback
\* whose payload starts with sect| or more| or is back_to_menu is handled by
\* exactly one handler, which makes at least one transport call; a callback
\* with any other payload is handled by no handler and nothing is sent for it.
C9_OneHandlerOrNone ==
    \A t \in DOMAIN tasks :
        tasks[t].pc # "idle"
        => IF tasks[t].event.kind = "message" \/ IsHandledPayload(tasks[t].event.data)
           THEN /\ Len(tasks[t].handlers) = 1
                /\ Ended(t) => tasks[t].out # <<>>
           ELSE /\ tasks[t].handlers = <<>>
                /\ tasks[t].out = <<>>
                /\ Ended(t)

\* A text that passes the filters of back_handler, section_selected and echo
\* was handled by one handler.
C9_Witness ==
    \E t \in DOMAIN tasks :
        /\ tasks[t].pc = "done"
        /\ tasks[t].event = Message("Nazad")
        /\ \E i \in 1..Len(SECTIONS) : SECTIONS[i].title = "Nazad"
        /\ INTERFACE_MODE = "inline"
        /\ Len(tasks[t].handlers) = 1
        /\ Len(tasks[t].out) = 1

-----------------------------------------------------------------------------
(* C10 *)

\* C10, as claimed: every callback whose handling is over has had a callback
\* answer, and no content message of a callback goes out before the answer.
\* A callback whose payload is of no handler's form gets no answer.
C10_EveryCallbackAnswered ==
    \A t \in DOMAIN tasks :
        tasks[t].event.kind = "callback_query"
        => /\ Ended(t) => \E k \in 1..Len(tasks[t].out) :
                              tasks[t].out[k].op = "answerCallback"
           /\ \A k \in 1..Len(tasks[t].out) :
                 IsContent(tasks[t].out[k])
                 => \E j \in 1..(k - 1) : tasks[t].out[j].op = "answerCallback"

\* C10, amended: for every callback whose payload starts with sect| or more|
\* or is back_to_menu, the handler's first transport call is the callback
\* answer: the handling does not end without it, and every content message
\* of the callback comes after it.
C10_HandledCallbackAnsweredFirst ==
    \A t \in DOMAIN tasks :
        ( /\ tasks[t].event.kind = "callback_query"
          /\ IsHandledPayload(tasks[t].event.data) )
        => /\ Ended(t) => tasks[t].out # <<>>
           /\ tasks[t].out # <<>> => tasks[t].out[1].op = "answerCallback"
           /\ \A k \in 1..Len(tasks[t].out) :
                 IsContent(tasks[t].out[k]) => k > 1

\* A sect| callback was acknowledged and its section then sent.
C10_Witness ==
    \E t \in DOMAIN tasks :
        /\ tasks[t].pc = "done"
        /\ StartsWith(tasks[t].event.data, SectPrefix)
        /\ Len(tasks[t].out) = 2
        /\ tasks[t].out[1] = AnswerCallback("", FALSE, TRUE)
        /\ IsContent(tasks[t].out[2])

-----------------------------------------------------------------------------
(* C11 *)

\* C11, as claimed: when the acknowledgement of a callback sect|id or more|id
\* of a section in the catalog, or of back_to_menu, raises, the content message
\* of the callback is still sent.  call.answer is awaited outside any try, so
\* the exception ends the handler before its send.
C11_ContentSentThoughAnswerFailed ==
    \A t \in DOMAIN tasks :
        ( /\ Ended(t)
          /\ tasks[t].event.kind = "callback_query"
          /\ IsHandledPayload(tasks[t].event.data)
          /\ IsSectionPayload(tasks[t].event.data) =>
                HasSectionId(PayloadId(tasks[t].event.data))
          /\ tasks[t].out # <<>>
          /\ tasks[t].out[1].op = "answerCallback"
          /\ ~tasks[t].out[1].ok )
        => Content(tasks[t].out) # <<>>

-----------------------------------------------------------------------------
(* C12 *)

\* The same call but for its outcome.
SameCall(c1, c2) == [c1 EXCEPT !.ok = TRUE] = [c2 EXCEPT !.ok = TRUE]

\* Two outputs that are equal up to the shorter one's length, or whose first
\* difference is the outcome of one and the same call.
Agree(o1, o2) ==
    LET m == IF Len(o1) <= Len(o2) THEN Len(o1) ELSE Len(o2)
    IN  \/ SubSeq(o1, 1, m) = SubSeq(o2, 1, m)
        \/ \E k \in 1..m :
              /\ SubSeq(o1, 1, k - 1) = SubSeq(o2, 1, k - 1)
              /\ SameCall(o1[k], o2[k])
              /\ o1[k].ok # o2[k].ok

\* C12: two finished handlings of the same update, whatever was handled before
\* either of them, ran the same handler and made the same calls as long as
\* the transport gave the same outcomes: their outputs are identical, or they
\* first differ in the outcome of the same call.
C12_SameEventSameAction ==
    \A t1, t2 \in DOMAIN tasks :
        ( /\ Ended(t1) /\ Ended(t2)
          /\ tasks[t1].event = tasks[t2].event )
        => /\ tasks[t1].handlers = tasks[t2].handlers
           /\ Agree(tasks[t1].out, tasks[t2].out)
           /\ ( /\ Len(tasks[t1].out) <= Len(tasks[t2].out)
                /\ tasks[t1].out = SubSeq(tasks[t2].out, 1, Len(tasks[t1].out)) )
              => tasks[t1].out = tasks[t2].out

\* A sect| callback was handled twice with the same outcomes and gave the same
\* three calls.
C12_Witness ==
    \E t1, t2 \in DOMAIN tasks :
        /\ t1 # t2
        /\ tasks[t1].pc = "done" /\ tasks[t2].pc = "done"
        /\ tasks[t1].event = tasks[t2].event
        /\ StartsWith(tasks[t1].event.data, SectPrefix)
        /\ Len(tasks[t1].out) = 3
        /\ tasks[t1].out = tasks[t2].out

-----------------------------------------------------------------------------
(* C13 *)

\* The texts some handler other than echo is registered for, under the catalog.
IsRecognisedText(text) ==
    \/ text \in {"/start", "/help"}
    \/ text \in ButtonLabels
    \/ \E i \in 1..Len(SECTIONS) : SECTIONS[i].title = text

\* C13: a text that is no command, no menu button's label and no title of a
\* section of the catalog is handled by echo, whose whole output is the one
\* "Ne ponimayu." message without keyboard, the same in menu and inline mode.
C13_UnrecognisedTextGetsFallback ==
    \A t \in DOMAIN tasks :
        ( /\ tasks[t].event.kind = "message"
          /\ ~IsRecognisedText(tasks[t].event.text) )
        => /\ tasks[t].handlers = <<"echo">>
           /\ Len(tasks[t].out) <= 1
           /\ \A k \in 1..Len(tasks[t].out) :
                 SameCall(tasks[t].out[k], SendMessage("Ne ponimayu.", NoMarkup, TRUE))
           /\ Ended(t) => Len(tasks[t].out) = 1

\* In inline mode the title of a section that is in the pool but not in the
\* catalog got the fallback.
C13_Witness ==
    \E t \in DOMAIN tasks :
        /\ tasks[t].pc = "done"
        /\ INTERFACE_MODE = "inline"
        /\ tasks[t].event = Message("Tail")
        /\ Len(SECTIONS) > 0
        /\ tasks[t].out = <<SendMessage("Ne ponimayu.", NoMarkup, TRUE)>>

-----------------------------------------------------------------------------
(* C14 *)

DistinctIds ==
    \A i, j \in 1..Len(SECTIONS) : i # j => SECTIONS[i].id # SECTIONS[j].id

\* The buttons of build_inline_sections_keyboard that carry a callback payload.
SectionButtons ==
    SelectSeq(Buttons(build_inline_sections_keyboard.rows),
              LAMBDA b : b.callback_data # <<>>)

\* C14, as claimed: in a catalog with pairwise distinct ids the sections inline
\* keyboard has one callback button per section, in catalog order, and the
\* payload of section s's button, routed back as a callback and acknowledged,
\* is answered with content messages that all carry s.text, the first a photo
\* of s.image when s has an image.  An id that is a JSON number is formatted
\* into the payload as text, and the text equals no number: no section is found.
C14_ButtonPayloadRendersItsSection ==
    DistinctIds
    => /\ Len(SectionButtons) = Len(SECTIONS)
       /\ \A i \in 1..Len(SECTIONS) :
             /\ SectionButtons[i].text = SECTIONS[i].title
             /\ \A t \in DOMAIN tasks :
                   ( /\ Ended(t)
                     /\ tasks[t].event = CallbackQuery(SectionButtons[i].callback_data)
                     /\ tasks[t].out[1].ok )
                   => LET c == Content(tasks[t].out)
                      IN  /\ c # <<>>
                          /\ \A k \in 1..Len(c) : c[k].text = SECTIONS[i].text
                          /\ SECTIONS[i].image # "" =>
                                c[1].op = "sendPhoto" /\ c[1].photo = SECTIONS[i].image

-----------------------------------------------------------------------------
(* C15 *)

\* C15: the keyboard sent for "Vybrat razdel" in menu mode, for a catalog of n
\* sections, has the rows of titles and then one row holding only "Nazad"; the
\* title rows, put end to end, are the titles in catalog order, and each holds
\* two buttons, but the last one holds one when n is odd.  For n = 0 the
\* keyboard is the "Nazad" row alone.
C15_ReplyKeyboardLayout ==
    \A t \in DOMAIN tasks :
        ( /\ tasks[t].event = Message("Vybrat razdel")
          /\ INTERFACE_MODE = "menu"
          /\ tasks[t].out # <<>> )
        => LET rows == tasks[t].out[1].reply_markup.rows
               n == Len(SECTIONS)
               last == Len(rows)
               titles == SubSeq(rows, 1, last - 1)
           IN  /\ tasks[t].out[1].reply_markup.type = "reply"
               /\ last = ((n + 1) \div 2) + 1
               /\ rows[last] = <<KeyboardButton("Nazad")>>
               /\ Buttons(titles) = [i \in 1..n |-> KeyboardButton(SECTIONS[i].title)]
               /\ \A r \in 1..(last - 1) :
                     Len(rows[r]) = (IF r = last - 1 /\ n % 2 = 1 THEN 1 ELSE 2)

\* The keyboard was sent for a catalog of three sections: a row of two titles,
\* a row of one, the "Nazad" row.
C15_Witness ==
    \E t \in DOMAIN tasks :
        /\ tasks[t].pc = "done"
        /\ tasks[t].event = Message("Vybrat razdel")
        /\ INTERFACE_MODE = "menu"
        /\ Len(SECTIONS) = 3
        /\ Len(tasks[t].out[1].reply_markup.rows) = 3
        /\ Len(tasks[t].out[1].reply_markup.rows[2]) = 1

-----------------------------------------------------------------------------
(* C16 *)

\* C16: the text "Vybrat razdel" is answered with one message, the text
\* "Vyberite razdel:" in both modes, whose keyboard is the sections reply
\* keyboard in menu mode and the sections inline keyboard in inline mode.
C16_ChooseSectionKeyboardByMode ==
    \A t \in DOMAIN tasks :
        tasks[t].event = Message("Vybrat razdel")
        => /\ tasks[t].handlers = <<"show_sections_menu">>
           /\ Len(tasks[t].out) <= 1
           /\ Ended(t) => Len(tasks[t].out) = 1
           /\ \A k \in 1..Len(tasks[t].out) :
                 /\ tasks[t].out[k].op = "sendMessage"
                 /\ tasks[t].out[k].text = "Vyberite razdel:"
                 /\ tasks[t].out[k].reply_markup =
                       (IF INTERFACE_MODE = "menu" THEN build_sections_reply_keyboard
                        ELSE build_inline_sections_keyboard)

\* In inline mode the sections inline keyboard of a catalog with sections was
\* sent for "Vybrat razdel".
C16_Witness ==
    \E t \in DOMAIN tasks :
        /\ tasks[t].pc = "done"
        /\ tasks[t].event = Message("Vybrat razdel")
        /\ INTERFACE_MODE = "inline"
        /\ Len(SECTIONS) > 0
        /\ tasks[t].out[1].reply_markup.type = "inline"
        /\ tasks[t].out[1].reply_markup.rows[1][1].callback_data
              = SectPrefix \o FormatId(SECTIONS[1].id)

-----------------------------------------------------------------------------
(* C17 *)

\* C17, as claimed: for a callback more|id with the id of a section s of the
\* catalog, the finished handler has made two calls: the acknowledgement, and
\* one text message without keyboard, s.more_text or, when s has none, the
\* static text.  When the acknowledgement raises the message is never sent
\* (C11), and of two sections with one id the first one's text is sent (C7).
C17_MoreSendsMoreText ==
    \A t \in DOMAIN tasks : \A i \in 1..Len(SECTIONS) :
        ( /\ Ended(t)
          /\ SECTIONS[i].id.py = "str"
          /\ tasks[t].event = CallbackQuery(MorePrefix \o SECTIONS[i].id.s) )
        => /\ Len(tasks[t].out) = 2
           /\ SameCall(tasks[t].out[1], AnswerCallback("", FALSE, TRUE))
           /\ SameCall(tasks[t].out[2],
                       SendMessage(IF SECTIONS[i].more_text # ""
                                   THEN SECTIONS[i].more_text
                                   ELSE "Dopolnitelnaya informatsiya otsutstvuet.",
                                   NoMarkup, TRUE))

-----------------------------------------------------------------------------
(* C18 *)

\* Whatever the other task does meanwhile, two handlings of the same update
\* run the same handler and make the same calls as long as the outcomes are
\* the same; one of the two may have run with the other task idle or ended.
SameCallsAsAlone ==
    \A t1, t2 \in DOMAIN tasks :
        (tasks[t1].pc # "idle" /\ tasks[t1].event = tasks[t2].event)
        => /\ tasks[t1].handlers = tasks[t2].handlers
           /\ Agree(tasks[t1].out, tasks[t2].out)

\* A step is one task's: it leaves the other tasks, the catalog and the mode
\* as they are, and adds at most one call to what its task has sent.
StepOfOneTask ==
    /\ SECTIONS' = SECTIONS
    /\ INTERFACE_MODE' = INTERFACE_MODE
    /\ \E t \in DOMAIN tasks :
          /\ \A u \in DOMAIN tasks \ {t} : tasks'[u] = tasks[u]
          /\ \/ tasks'[t].pc = "idle"
             \/ tasks[t].pc = "idle"
             \/ /\ tasks'[t].event = tasks[t].event
                /\ Len(tasks'[t].out) <= Len(tasks[t].out) + 1
                /\ SubSeq(tasks'[t].out, 1, Len(tasks[t].out)) = tasks[t].out

\* C18: with two updates handled at once, interleaved at every transport
\* call, the calls made for an update are those made for it when it is handled
\* alone, and no step of a handler changes another task's calls, the catalog
\* or the mode.
C18_InterleavingChangesNothing ==
    [] SameCallsAsAlone /\ [][StepOfOneTask]_vars

\* Both tasks are in the middle of a handler, each with a call made: one after
\* a failed photo, the other after its acknowledgement.
C18_Witness ==
    \E t1, t2 \in DOMAIN tasks :
        /\ tasks[t1].pc = "photo_failed"
        /\ tasks[t2].pc = "answered"
        /\ tasks[t1].event # tasks[t2].event
        /\ tasks[t2].handlers = <<"inline_more_callback">>

-----------------------------------------------------------------------------
(* C19 *)

\* The two events whose handlers read INTERFACE_MODE.
ReadsMode(e) == e \in {Message("Vybrat razdel"), CallbackQuery(BackToMenu)}

\* The menu instance's handling of an update (task 1) and the inline
\* instance's handling of the same update (task 2) ran the same handler and
\* made the same calls as long as the transport gave the same outcomes.
SameInBothModes ==
    ( /\ INTERFACE_MODE = "inline"
      /\ tasks[2].pc # "idle"
      /\ tasks[1].event = tasks[2].event
      /\ ~ReadsMode(tasks[1].event) )
    => /\ tasks[1].handlers = tasks[2].handlers
       /\ Agree(tasks[1].out, tasks[2].out)
       /\ ( /\ Ended(2)
            /\ LET m == IF Len(tasks[1].out) <= Len(tasks[2].out)
                        THEN Len(tasks[1].out) ELSE Len(tasks[2].out)
               IN  SubSeq(tasks[1].out, 1, m) = SubSeq(tasks[2].out, 1, m) )
          => tasks[1].out = tasks[2].out

\* In inline mode a text that is a section's title and no button's label is
\* handled by section_selected, which sends that section's text.
TitleRenderedInInlineMode ==
    ( /\ INTERFACE_MODE = "inline"
      /\ tasks[2].event.kind = "message"
      /\ tasks[2].event.text \notin ButtonLabels
      /\ \E i \in 1..Len(SECTIONS) : SECTIONS[i].title = tasks[2].event.text )
    => /\ tasks[2].handlers = <<"section_selected">>
       /\ Ended(2) =>
             /\ tasks[2].out # <<>>
             /\ \A k \in 1..Len(tasks[2].out) :
                   /\ IsContent(tasks[2].out[k])
                   /\ tasks[2].out[k].text = SectionByTitle(tasks[2].event.text).text

\* In menu mode a sect| or more| callback is handled by its callback handler:
\* acknowledged first, and once acknowledged answered with content when the id
\* is a section's.
CallbacksServedInMenuMode ==
    ( /\ tasks[1].event.kind = "callback_query"
      /\ IsSectionPayload(tasks[1].event.data) )
    => /\ tasks[1].handlers =
             (IF StartsWith(tasks[1].event.data, SectPrefix)
              THEN <<"inline_section_callback">> ELSE <<"inline_more_callback">>)
       /\ Ended(1) =>
             /\ tasks[1].out[1].op = "answerCallback"
             /\ ( /\ tasks[1].out[1].ok
                  /\ HasSectionId(PayloadId(tasks[1].event.data)) )
                => Content(tasks[1].out) # <<>>

\* C19: of two instances that differ in INTERFACE_MODE only, every update other
\* than the text "Vybrat razdel" and the callback back_to_menu gets the same
\* handler and the same calls; a section's title is rendered in inline mode, and
\* sect| and more| callbacks are served in menu mode.
C19_ModeReadByTwoEventsOnly ==
    /\ SameInBothModes
    /\ TitleRenderedInInlineMode
    /\ CallbacksServedInMenuMode

\* Both instances rendered the section "Tail" for its title, with the photo
\* failing and the text following, and made the same two calls.
C19_Witness ==
    /\ INTERFACE_MODE = "inline"
    /\ tasks[1].event = Message("Tail")
    /\ tasks[2].event = Message("Tail")
    /\ tasks[1].pc = "done" /\ tasks[2].pc = "done"
    /\ Len(tasks[2].out) = 2
    /\ tasks[1].out = tasks[2].out

====
